---- MODULE Spec2Model ----
(***************************************************************************)
(* Availability reconciliation of the direct-booking application: the     *)
(* calendar_connections, calendar_events, unavailable_dates and bookings  *)
(* tables, the sync pass (syncCalendarEvents) with its projector           *)
(* (processCalendarEventsToUnavailableDates), the import and sync routes,  *)
(* the payment webhook handlers, the host's manual event handlers and the  *)
(* export route (generatePropertyIcal).                                    *)
(*                                                                         *)
(* Every storage call of a handler is one step: another request may run    *)
(* between two awaits.  An instant is a number of slots since day 0        *)
(* (SlotsPerDay slots to a day, the server running in UTC); a calendar     *)
(* date is a day number.                                                   *)
(***************************************************************************)
EXTENDS Integers, Sequences, FiniteSets, TLC

\* ------------------------------------------------------------------ bounds
SlotsPerDay == 2
MaxDay == 2
MaxId == 3
MaxNow == 2
MaxFeed == 2

\* ------------------------------------------------------------------ values
Null == "null"
NoId == 0
NoBooking == "none"
Properties == {"p1"}
Sources == {"airbnb", "other"}
Uids == {"u1", "u2"}
Summaries == {"Busy", Null}
Urls == {"url1", "url2"}
BookingIds == {"b1"}
Procs == {1, 2}
Hosts == {"h1", "h2"}
\* The properties table: each property and its host.
PropertiesTable ==
  {[id |-> "p1", host_id |-> "h1", name |-> "Villa"],
   [id |-> "p2", host_id |-> "h2", name |-> "Cabin"]}
\* A property id that no row of the properties table has.
MissingProperty == "p0"
\* const BYPASS_AUTH = true
BYPASS_AUTH == TRUE

Days == 0..MaxDay
Instants == 0..(MaxDay * SlotsPerDay)
Midnight(d) == d * SlotsPerDay

\* ------------------------------------------------------------------ state
VARIABLES
  ddl,                  \* which CREATE TABLE statements made the tables
  calendar_connections, \* set of rows
  calendar_events,      \* set of rows
  unavailable_dates,    \* set of rows, one per (property_id, date)
  bookings,             \* set of rows
  nextId,               \* next generated uuid (events and connections)
  now,                  \* the clock behind new Date().toISOString()
  pass,                 \* per request: its position and its local variables
  last,                 \* the last completed sync pass, until another write
  swallowed             \* history: some call's error was logged or not read

vars == <<ddl, calendar_connections, calendar_events,
          unavailable_dates, bookings, nextId, now, pass, last, swallowed>>

\* ------------------------------------------------------------------ schema
\* The repository creates the two calendar tables in two ways: the
\* migrations of update-schema.js, or the SQL of the README (calendar_events)
\* and of the calendar_connections script.
Ddls == {"update-schema.js", "sql"}

\* update-schema.js declares UNIQUE(property_id, source, external_id); the
\* README's CREATE TABLE of the same table does not.
EventsUnique == ddl = "update-schema.js"

\* The calendar_connections script declares UNIQUE(property_id, source); the
\* CREATE TABLE of update-schema.js does not.
ConnectionsUnique == ddl = "sql"

\* ------------------------------------------------------------------ dates
\* date.toISOString().split('T')[0]
DayOf(t) == t \div SlotsPerDay

\* while (currentDate < endDate) { push(day of currentDate); setDate(+1) }
RECURSIVE DatesBetween(_, _)
DatesBetween(currentDate, endDate) ==
  IF currentDate < endDate
  THEN {DayOf(currentDate)} \cup DatesBetween(currentDate + SlotsPerDay, endDate)
  ELSE {}

\* reason: event.summary || `Calendar event from ${event.source}`
EventReason(event) ==
  IF event.summary # Null THEN event.summary
  ELSE IF event.source = "airbnb" THEN "Calendar event from airbnb"
  ELSE "Calendar event from other"

\* reason: `Booking #${booking.id}`
BookingReason(b) == "Booking #" \o b

\* ------------------------------------------------------------------ rows
NoConn ==
  [id |-> NoId, property_id |-> Null, source |-> Null, ical_url |-> Null,
   last_synced |-> 0]

ZeroResult == [added |-> 0, updated |-> 0, removed |-> 0]

\* The tables as a sync pass found them when it was called.
NoBefore == [events |-> {}, dates |-> {}, connections |-> {}, bookings |-> {}]

\* The last pass that ended, for the claims that compare two passes in a
\* row: of a completed pass, the tables it left; of a pass that threw after
\* its upsert and projection, the tables it found and the first id free at
\* its start.
NoLast ==
  [valid |-> FALSE, cid |-> NoId, feed |-> <<>>, events |-> {}, dates |-> {},
   failedAt |-> "none", before |-> NoBefore, firstId |-> NoId]

\* The body and status of a route's answer; results is the sync route's
\* array of per-connection entries.
NoResponse ==
  [status |-> 0, success |-> FALSE, syncError |-> FALSE, results |-> <<>>,
   count |-> 0]

\* The exported calendar: the header lines, the VEVENT blocks in the order
\* they were pushed, the closing line.
NoDocument == [header |-> <<>>, vevents |-> <<>>, end |-> Null]

\* What an export has read so far (the property's name, the bookings, the
\* blocked dates), whether each of its selects found the tables as the first
\* one did (steady), whether each of them found the property with nothing
\* to export (blank), and the document it returned.
NoIcal ==
  [name |-> Null, bookings |-> <<>>, blockedDates |-> <<>>, steady |-> TRUE,
   blank |-> TRUE, document |-> NoDocument]

\* The booking a webhook handler read, and the event a form handler wrote.
NoBookingRow ==
  [id |-> NoBooking, property_id |-> Null, check_in |-> 0, check_out |-> 0,
   status |-> Null]

NoEvent ==
  [id |-> NoId, property_id |-> Null, source |-> Null, external_id |-> Null,
   summary |-> Null, start_date |-> 0, end_date |-> 0, updated_at |-> 0]

IdlePass ==
  [pc |-> "idle", kind |-> "none", property |-> Null, url |-> Null,
   source |-> Null, caller |-> Null, batch |-> <<>>, outcomes |-> <<>>,
   results |-> <<>>, response |-> NoResponse,
   existingConnection |-> NoConn, conn |-> NoConn, todo |-> <<>>, t |-> 0,
   since |-> 0,
   feed |-> <<>>, existingEventsMap |-> {}, eventsToUpsert |-> <<>>,
   upsertedEvents |-> <<>>, k |-> 0, idsToRemove |-> {}, result |-> ZeroResult,
   failedAt |-> "none", ignored |-> {}, before |-> NoBefore,
   booking |-> NoBookingRow, event |-> NoEvent, ical |-> NoIcal]

Range(s) == {s[i] : i \in DOMAIN s}

\* ------------------------------------------------------------------ storage
\* unavailable_dates: .upsert(rows, { onConflict: 'property_id,date' }) with
\* the columns property_id, date, reason, event_id.  ON CONFLICT DO UPDATE
\* sets the columns of the payload only: booking_id keeps its stored value.
UpsertEventDates(table, property, dates, reason, event_id) ==
  {r \in table : ~(r.property_id = property /\ r.date \in dates)} \cup
  {[property_id |-> property, date |-> d, reason |-> reason, event_id |-> event_id,
    booking_id |-> IF \E r \in table : r.property_id = property /\ r.date = d
                   THEN (CHOOSE r \in table : r.property_id = property /\ r.date = d).booking_id
                   ELSE NoBooking] : d \in dates}

\* The same upsert with the columns property_id, date, reason, booking_id:
\* event_id keeps its stored value.
UpsertBookingDates(table, property, dates, reason, booking_id) ==
  {r \in table : ~(r.property_id = property /\ r.date \in dates)} \cup
  {[property_id |-> property, date |-> d, reason |-> reason, booking_id |-> booking_id,
    event_id |-> IF \E r \in table : r.property_id = property /\ r.date = d
                 THEN (CHOOSE r \in table : r.property_id = property /\ r.date = d).event_id
                 ELSE NoId] : d \in dates}

\* unavailable_dates: .delete().in('event_id', ids) / .eq('event_id', id)
DeleteDatesOfEvents(table, ids) == {r \in table : r.event_id \notin ids}

\* unavailable_dates: .delete().eq('booking_id', id)
DeleteDatesOfBooking(table, b) == {r \in table : r.booking_id # b}

\* event_id UUID REFERENCES calendar_events(id) ON DELETE SET NULL
OnDeleteSetNull(table, ids) ==
  {IF r.event_id \in ids THEN [r EXCEPT !.event_id = NoId] ELSE r : r \in table}

\* calendar_events: .delete().in('id', ids)
DeleteEvents(table, ids) == {r \in table : r.id \notin ids}

\* UNIQUE(property_id, source, external_id): NULLs are distinct.
ViolatesEventsUnique(table) ==
  \E r1, r2 \in table :
    /\ r1.id # r2.id
    /\ r1.external_id # Null
    /\ r1.property_id = r2.property_id
    /\ r1.source = r2.source
    /\ r1.external_id = r2.external_id

\* UNIQUE(property_id, source)
ViolatesConnectionsUnique(table) ==
  \E c1, c2 \in table :
    c1.id # c2.id /\ c1.property_id = c2.property_id /\ c1.source = c2.source

\* ------------------------------------------------------------------ sync pass: staging
\* start_date / end_date as the column keeps them: TIMESTAMP WITH TIME ZONE in
\* update-schema.js, DATE in the README's CREATE TABLE.
ColumnValue(t) == IF ddl = "update-schema.js" THEN t ELSE Midnight(DayOf(t))

\* A test of the component type alone: entries without a start or an end
\* are staged as well.
IsStorable_TypeOnly(entry) == entry.type = "VEVENT"

\* if (event.type === 'VEVENT' && event.start && event.end)
IsStorable(entry) == entry.type = "VEVENT" /\ entry.has_start /\ entry.has_end

StorableEntries(feed) == SelectSeq(feed, IsStorable)

\* existingEventsMap.has(externalId) / .get(externalId)
MapHas(map, externalId) == \E r \in map : r.external_id = externalId
MapGet(map, externalId) == CHOOSE r \in map : r.external_id = externalId

\* The loop over Object.entries(parsedEvents): one staged row per storable
\* entry, in feed order, carrying the stored row's id when the map has one.
EventsToUpsert(conn, feed, map, t) ==
  LET es == StorableEntries(feed) IN
  [i \in 1..Len(es) |->
    [id |-> IF MapHas(map, es[i].uid) THEN MapGet(map, es[i].uid).id ELSE NoId,
     property_id |-> conn.property_id,
     source |-> conn.source,
     external_id |-> es[i].uid,
     summary |-> es[i].summary,
     start_date |-> es[i].start,
     end_date |-> es[i].end,
     updated_at |-> t]]

\* processedIds
ProcessedIds(feed) == {e.uid : e \in Range(StorableEntries(feed))}

\* result.updated++ for an entry the map has, result.added++ otherwise
CountUpdated(feed, map) ==
  Cardinality({i \in DOMAIN StorableEntries(feed) : MapHas(map, StorableEntries(feed)[i].uid)})

CountAdded(feed, map) ==
  Cardinality({i \in DOMAIN StorableEntries(feed) : ~MapHas(map, StorableEntries(feed)[i].uid)})

\* existingEventsMap.forEach: a stored row whose external id was not processed
IdsToRemove(feed, map) == {r.id : r \in {x \in map : x.external_id \notin ProcessedIds(feed)}}

\* The maps that existingEvents.forEach(set) can build: one row per external
\* id, the last one in the order the select returned them.
ExistingEventsMaps(conn) ==
  LET rows == {r \in calendar_events :
                 /\ r.property_id = conn.property_id
                 /\ r.source = conn.source
                 /\ r.external_id # Null}
      exts == {r.external_id : r \in rows}
  IN {m \in SUBSET rows :
        /\ {r.external_id : r \in m} = exts
        /\ \A r1, r2 \in m : r1.external_id = r2.external_id => r1 = r2}

\* calendar_events: .upsert(eventsToUpsert).select(): keyed on the primary key.
\* A staged row without id is inserted under a generated id; a staged row
\* with id replaces the row of that id (or is inserted under it).  Where the
\* README's BEFORE UPDATE trigger exists, a row the statement updates gets
\* updated_at = now(), the clock when the statement runs; an inserted row
\* keeps the staged value.  The rows are what .select() returns.
UpsertedEvents(table, staged, firstId, clock) ==
  [i \in DOMAIN staged |->
    [staged[i] EXCEPT
       !.id = IF staged[i].id # NoId THEN staged[i].id
              ELSE firstId + Cardinality({j \in 1..(i - 1) : staged[j].id = NoId}),
       !.start_date = ColumnValue(staged[i].start_date),
       !.end_date = ColumnValue(staged[i].end_date),
       !.updated_at = IF ddl = "sql" /\ \E r \in table : r.id = staged[i].id
                      THEN clock ELSE @]]

UpsertEvents(table, staged, firstId, clock) ==
  LET rows == UpsertedEvents(table, staged, firstId, clock) IN
  {r \in table : r.id \notin {x.id : x \in Range(rows)}} \cup Range(rows)

GeneratedIds(staged) == Cardinality({i \in DOMAIN staged : staged[i].id = NoId})

\* ------------------------------------------------------------------ inputs
\* The feeds a fetch may return: at most MaxFeed components, no UID twice
\* (parsedEvents is an object keyed by UID), in document order.
EntriesOver(ranges) ==
  {[uid |-> u, type |-> "VEVENT", has_start |-> TRUE, has_end |-> TRUE,
    summary |-> s, start |-> r[1], end |-> r[2]] :
     u \in Uids, s \in Summaries, r \in ranges}

FeedsOver(entries) ==
  {f \in UNION {[1..n -> entries] : n \in 0..MaxFeed} :
     \A i, j \in DOMAIN f : i # j => f[i].uid # f[j].uid}

\* Ranges that start at midnight and end at any later instant: all-day
\* events and events that end during a day.
SyncRanges == {<<Midnight(d), e>> : d \in Days, e \in Instants} \cap
              {r \in Instants \X Instants : r[1] < r[2]}

SyncFeeds == FeedsOver(EntriesOver(SyncRanges))

\* The orders in which a select may return a set of rows.
OrdersOf(S) == {q \in [1..Cardinality(S) -> S] : Range(q) = S}

\* ------------------------------------------------------------------ requests
Quiet == \A q \in Procs : pass[q].pc = "idle"

Init ==
  /\ ddl \in Ddls
  /\ calendar_connections = {}
  /\ calendar_events = {}
  /\ unavailable_dates = {}
  /\ bookings = {}
  /\ nextId = 1
  /\ now = 0
  /\ pass = [p \in Procs |-> IdlePass]
  /\ last = NoLast
  /\ swallowed = FALSE

\* The request bodies and sessions a route may be called with:
\* <<propertyId, source, icalUrl, the signed-in host>>.
Requests(propertyIds, sources, urls, callers) ==
  propertyIds \X sources \X urls \X callers

\* The property query of the routes: by id, and by host_id unless BYPASS_AUTH.
PropertyFound(propertyId, userId) ==
  \E r \in PropertiesTable :
    r.id = propertyId /\ (BYPASS_AUTH \/ r.host_id = userId)

\* The request p after its route answered.
Responded(q, response) ==
  [IdlePass EXCEPT !.pc = "responded", !.kind = q.kind, !.property = q.property,
     !.url = q.url, !.source = q.source, !.caller = q.caller,
     !.existingConnection = q.existingConnection, !.conn = q.conn,
     !.batch = q.batch, !.outcomes = q.outcomes, !.failedAt = q.failedAt,
     !.response = response]

\* POST /api/calendar/import: the body is valid; the property is looked up,
\* 404 if the select returns an error or no row.
ImportStart(p, seq, requests) ==
  /\ pass[p].pc = "idle"
  /\ seq => Quiet
  /\ nextId <= MaxId
  /\ \E req \in requests, error \in BOOLEAN :
       LET q == [IdlePass EXCEPT !.pc = "conn_select", !.kind = "import",
                   !.property = req[1], !.source = req[2], !.url = req[3],
                   !.caller = req[4]]
       IN pass' = [pass EXCEPT ![p] =
            IF ~error /\ PropertyFound(req[1], req[4]) THEN q
            ELSE Responded(q, [NoResponse EXCEPT !.status = 404])]
  /\ UNCHANGED <<ddl, calendar_connections, calendar_events,
                 unavailable_dates, bookings, nextId, now, last, swallowed>>

\* addAirbnbCalendarConnection: the select of the existing connection.
\* .single() yields PGRST116, read as "no connection", for no row and for
\* several rows alike.
ConnSelect(p) ==
  /\ pass[p].pc = "conn_select"
  /\ LET rows == {c \in calendar_connections :
                    c.property_id = pass[p].property /\ c.source = "airbnb"}
     IN pass' = [pass EXCEPT ![p].pc = "conn_write",
                   ![p].existingConnection =
                      IF Cardinality(rows) = 1 THEN CHOOSE c \in rows : TRUE ELSE NoConn]
  /\ UNCHANGED <<ddl, calendar_connections, calendar_events,
                 unavailable_dates, bookings, nextId, now, last, swallowed>>

\* addAirbnbCalendarConnection: the update of the existing connection or the
\* insert of a new one; an error makes the route answer 500.
ConnWrite(p) ==
  /\ pass[p].pc = "conn_write"
  /\ LET old == pass[p].existingConnection
         new == [id |-> nextId, property_id |-> pass[p].property, source |-> "airbnb",
                 ical_url |-> pass[p].url, last_synced |-> 0]
     IN
     \/ /\ old # NoConn
        /\ \E c \in calendar_connections : c.id = old.id
        /\ LET c == CHOOSE x \in calendar_connections : x.id = old.id
               d == [c EXCEPT !.ical_url = pass[p].url]
           IN /\ calendar_connections' = (calendar_connections \ {c}) \cup {d}
              /\ pass' = [pass EXCEPT ![p].pc = "fetch", ![p].conn = d]
        /\ UNCHANGED nextId
     \/ /\ old = NoConn
        /\ ~(ConnectionsUnique /\ ViolatesConnectionsUnique(calendar_connections \cup {new}))
        /\ calendar_connections' = calendar_connections \cup {new}
        /\ nextId' = nextId + 1
        /\ pass' = [pass EXCEPT ![p].pc = "fetch", ![p].conn = new]
     \/ /\ pass' = [pass EXCEPT ![p] =
                      Responded(pass[p], [NoResponse EXCEPT !.status = 500])]
        /\ UNCHANGED <<calendar_connections, nextId>>
  /\ UNCHANGED <<ddl, calendar_events, unavailable_dates,
                 bookings, now, last, swallowed>>

\* POST /api/calendar/sync: the property is looked up, 404 if the select
\* returns an error or no row.
SyncStart(p, seq, requests) ==
  /\ pass[p].pc = "idle"
  /\ seq => Quiet
  /\ \E req \in requests, error \in BOOLEAN :
       LET q == [IdlePass EXCEPT !.pc = "connections", !.kind = "sync",
                   !.property = req[1], !.caller = req[4]]
       IN pass' = [pass EXCEPT ![p] =
            IF ~error /\ PropertyFound(req[1], req[4]) THEN q
            ELSE Responded(q, [NoResponse EXCEPT !.status = 404])]
  /\ UNCHANGED <<ddl, calendar_connections, calendar_events,
                 unavailable_dates, bookings, nextId, now, last, swallowed>>

\* The sync route's select of the connections of the property, in the order
\* the select returned them: an error is thrown and answered 500, no
\* connection is answered 404, else the loop starts with the first.
SyncConnections(p) ==
  /\ pass[p].pc = "connections"
  /\ LET conns == {c \in calendar_connections : c.property_id = pass[p].property}
     IN \E order \in OrdersOf(conns), error \in BOOLEAN :
          pass' = [pass EXCEPT ![p] =
            IF error THEN Responded(pass[p], [NoResponse EXCEPT !.status = 500])
            ELSE IF order = <<>>
            THEN Responded(pass[p], [NoResponse EXCEPT !.status = 404])
            ELSE [pass[p] EXCEPT !.pc = "fetch", !.conn = Head(order),
                    !.todo = Tail(order), !.batch = order]]
  /\ UNCHANGED <<ddl, calendar_connections, calendar_events,
                 unavailable_dates, bookings, nextId, now, last, swallowed>>

\* GET /api/cron/sync-calendars with the cron key: syncAllCalendars selects
\* every connection and loops over them; a failed select makes the route
\* answer 500.
SyncAllStart(p, seq) ==
  /\ pass[p].pc = "idle"
  /\ seq => Quiet
  /\ \E order \in OrdersOf(calendar_connections), failed \in BOOLEAN :
       LET q == [IdlePass EXCEPT !.kind = "cron"] IN
       pass' = [pass EXCEPT ![p] =
         IF failed THEN Responded(q, [NoResponse EXCEPT !.status = 500])
         ELSE IF order = <<>>
         THEN Responded(q, [NoResponse EXCEPT !.status = 200, !.success = TRUE])
         ELSE [q EXCEPT !.pc = "fetch", !.conn = Head(order),
                 !.todo = Tail(order), !.batch = order]]
  /\ UNCHANGED <<ddl, calendar_connections, calendar_events,
                 unavailable_dates, bookings, nextId, now, last, swallowed>>

\* ------------------------------------------------------------------ process route
\* POST /api/calendar/process: the property is looked up, 404 if the select
\* returns an error or no row.  The body's source is optional.
ProcessStart(p, seq, requests) ==
  /\ pass[p].pc = "idle"
  /\ seq => Quiet
  /\ \E req \in requests, error \in BOOLEAN :
       LET q == [IdlePass EXCEPT !.pc = "events", !.kind = "process",
                   !.property = req[1], !.source = req[2], !.caller = req[4]]
       IN pass' = [pass EXCEPT ![p] =
            IF ~error /\ PropertyFound(req[1], req[4]) THEN q
            ELSE Responded(q, [NoResponse EXCEPT !.status = 404])]
  /\ UNCHANGED <<ddl, calendar_connections, calendar_events,
                 unavailable_dates, bookings, nextId, now, last, swallowed>>

\* The process route's select of the events of the property, of the body's
\* source when it names one, in the order the select returned them: an error
\* is thrown and answered 500, no event is answered with count 0, else the
\* projector is called with the events.
ProcessEvents(p) ==
  /\ pass[p].pc = "events"
  /\ LET events == {e \in calendar_events :
                      /\ e.property_id = pass[p].property
                      /\ pass[p].source # Null => e.source = pass[p].source}
     IN \E order \in OrdersOf(events), error \in BOOLEAN :
          pass' = [pass EXCEPT ![p] =
            IF error THEN Responded(pass[p], [NoResponse EXCEPT !.status = 500])
            ELSE IF order = <<>>
            THEN Responded(pass[p], [NoResponse EXCEPT !.status = 200])
            ELSE [pass[p] EXCEPT !.pc = "proj_delete", !.upsertedEvents = order,
                    !.k = 1]]
  /\ last' = NoLast
  /\ UNCHANGED <<ddl, calendar_connections, calendar_events,
                 unavailable_dates, bookings, nextId, now, swallowed>>

\* The projector returned: the route answers with the number of events.
ProcessAnswer(p) ==
  /\ pass[p].pc = "processed"
  /\ pass' = [pass EXCEPT ![p] =
       Responded(pass[p], [NoResponse EXCEPT !.status = 200, !.success = TRUE,
                             !.count = Len(pass[p].upsertedEvents)])]
  /\ UNCHANGED <<ddl, calendar_connections, calendar_events,
                 unavailable_dates, bookings, nextId, now, last, swallowed>>

\* ------------------------------------------------------------------ syncCalendarEvents
Tables ==
  [events |-> calendar_events, dates |-> unavailable_dates,
   connections |-> calendar_connections, bookings |-> bookings]

\* A sync that clears the connection's events before it fetches: a failed
\* fetch then leaves the events deleted.
Fetch_ClearsFirst(p, feeds) ==
  /\ pass[p].pc = "fetch"
  /\ \/ /\ now < MaxNow
        /\ \E feed \in feeds :
             /\ nextId + Len(StorableEntries(feed)) - 1 <= MaxId
             /\ pass' = [pass EXCEPT ![p].pc = "select", ![p].feed = feed,
                           ![p].before = Tables]
        /\ now' = now + 1
        /\ UNCHANGED calendar_events
     \/ /\ pass' = [pass EXCEPT ![p].pc = "failed", ![p].failedAt = "fetch",
                      ![p].before = Tables]
        /\ calendar_events' =
             {r \in calendar_events : ~(r.property_id = pass[p].conn.property_id
                                         /\ r.source = pass[p].conn.source)}
        /\ UNCHANGED now
  /\ UNCHANGED <<ddl, calendar_connections, unavailable_dates, bookings, nextId, last,
                 swallowed>>

\* fetchIcalFeed + parseICS: the feed the URL serves now, or a throw.  The
\* clock moves on while the feed is fetched.
Fetch(p, feeds) ==
  /\ pass[p].pc = "fetch"
  /\ \/ /\ now < MaxNow
        /\ \E feed \in feeds :
             /\ nextId + Len(StorableEntries(feed)) - 1 <= MaxId
             /\ pass' = [pass EXCEPT ![p].pc = "select", ![p].feed = feed,
                           ![p].before = Tables]
        /\ now' = now + 1
     \/ /\ pass' = [pass EXCEPT ![p].pc = "failed", ![p].failedAt = "fetch",
                      ![p].before = Tables]
        /\ UNCHANGED now
  /\ UNCHANGED <<ddl, calendar_connections, calendar_events,
                 unavailable_dates, bookings, nextId, last, swallowed>>

\* The awaited select of the stored events of (property, source).  Its error
\* is not read: without data the map by external id is empty, as it is when
\* nothing is stored.
SelectExisting(p) ==
  /\ pass[p].pc = "select"
  /\ \E failed \in BOOLEAN :
     \E map \in IF failed THEN {{}} ELSE ExistingEventsMaps(pass[p].conn) :
       /\ failed => ExistingEventsMaps(pass[p].conn) # {{}}
       /\ pass' = [pass EXCEPT
            ![p].existingEventsMap = map,
            ![p].ignored = IF failed THEN {"select"} ELSE {},
            ![p].pc = "stage"]
       /\ swallowed' = (swallowed \/ failed)
  /\ UNCHANGED <<ddl, calendar_connections, calendar_events,
                 unavailable_dates, bookings, nextId, now, last>>

\* The pass resumes after the select: the map by external id, then the
\* staging loop over the parsed feed, which takes new Date() for updated_at
\* at the clock of the resume, and the ids of the stored events the feed no
\* longer lists.
StageEvents(p) ==
  /\ pass[p].pc = "stage"
  /\ LET feed == pass[p].feed
         map == pass[p].existingEventsMap
         staged == EventsToUpsert(pass[p].conn, feed, map, now)
         remove == IdsToRemove(feed, map)
     IN pass' = [pass EXCEPT
          ![p].t = now,
          ![p].since = now,
          ![p].eventsToUpsert = staged,
          ![p].idsToRemove = remove,
          ![p].result = [added |-> CountAdded(feed, map),
                         updated |-> CountUpdated(feed, map),
                         removed |-> Cardinality(remove)],
          ![p].pc = IF Len(staged) > 0 THEN "upsert"
                    ELSE IF remove # {} THEN "rm_dates" ELSE "stamp"]
  /\ UNCHANGED <<ddl, calendar_connections, calendar_events,
                 unavailable_dates, bookings, nextId, now, last, swallowed>>

\* .upsert(eventsToUpsert).select(): one statement; if (error) throw error.
UpsertStep(p) ==
  /\ pass[p].pc = "upsert"
  /\ LET staged == pass[p].eventsToUpsert
         table == UpsertEvents(calendar_events, staged, nextId, now)
     IN
     \/ /\ nextId + GeneratedIds(staged) - 1 <= MaxId
        /\ ~(EventsUnique /\ ViolatesEventsUnique(table))
        /\ calendar_events' = table
        /\ nextId' = nextId + GeneratedIds(staged)
        /\ pass' = [pass EXCEPT ![p].upsertedEvents =
                        UpsertedEvents(calendar_events, staged, nextId, now),
                      ![p].k = 1, ![p].pc = "proj_delete"]
     \/ /\ pass' = [pass EXCEPT ![p].pc = "failed", ![p].failedAt = "upsert"]
        /\ UNCHANGED <<calendar_events, nextId>>
  /\ UNCHANGED <<ddl, calendar_connections, unavailable_dates,
                 bookings, now, last, swallowed>>

\* After the projector loop, or when nothing was staged: the removal, if any.
AfterProjection(p) ==
  IF pass[p].kind = "process" THEN "processed"
  ELSE IF pass[p].idsToRemove # {} THEN "rm_dates" ELSE "stamp"

\* The propertyId the projector was called with: connection.property_id by
\* the pass, the body's propertyId by the process route.
ProjectedProperty(p) ==
  IF pass[p].kind = "process" THEN pass[p].property ELSE pass[p].conn.property_id

\* processCalendarEventsToUnavailableDates, first await of the loop body:
\* .delete().eq('event_id', event.id); its error is not read.
ProjectDelete(p) ==
  /\ pass[p].pc = "proj_delete"
  /\ LET event == pass[p].upsertedEvents[pass[p].k] IN
     \/ /\ unavailable_dates' = DeleteDatesOfEvents(unavailable_dates, {event.id})
        /\ pass' = [pass EXCEPT ![p].pc = "proj_upsert"]
     \/ /\ UNCHANGED unavailable_dates
        /\ pass' = [pass EXCEPT ![p].pc = "proj_upsert",
                      ![p].ignored = @ \cup {"proj_delete"}]
  /\ swallowed' = (swallowed \/ "proj_delete" \in pass'[p].ignored)
  /\ UNCHANGED <<ddl, calendar_connections, calendar_events,
                 bookings, nextId, now, last>>

\* Second await of the loop body: the upsert of one row per day of the loop
\* while (currentDate < endDate); its error is logged.  event_id references
\* calendar_events(id): the upsert fails when the event is gone.
ProjectUpsert(p) ==
  /\ pass[p].pc = "proj_upsert"
  /\ LET event == pass[p].upsertedEvents[pass[p].k]
         dates == DatesBetween(event.start_date, event.end_date)
         next == IF pass[p].k = Len(pass[p].upsertedEvents)
                 THEN AfterProjection(p) ELSE "proj_delete"
     IN
     \/ /\ dates # {}
        /\ \E r \in calendar_events : r.id = event.id
        /\ unavailable_dates' = UpsertEventDates(unavailable_dates,
              ProjectedProperty(p), dates, EventReason(event), event.id)
        /\ pass' = [pass EXCEPT ![p].k = pass[p].k + 1, ![p].pc = next,
                      ![p].since = now]
     \/ /\ UNCHANGED unavailable_dates
        /\ pass' = [pass EXCEPT ![p].k = pass[p].k + 1, ![p].pc = next,
                      ![p].since = now,
                      ![p].ignored = IF dates # {} THEN @ \cup {"proj_upsert"} ELSE @]
  /\ swallowed' = (swallowed \/ "proj_upsert" \in pass'[p].ignored)
  /\ UNCHANGED <<ddl, calendar_connections, calendar_events,
                 bookings, nextId, now, last>>

\* .from('unavailable_dates').delete().in('event_id', idsToRemove); its
\* error is not read.
RemoveDates(p) ==
  /\ pass[p].pc = "rm_dates"
  /\ \/ /\ unavailable_dates' = DeleteDatesOfEvents(unavailable_dates, pass[p].idsToRemove)
        /\ pass' = [pass EXCEPT ![p].pc = "rm_events"]
     \/ /\ UNCHANGED unavailable_dates
        /\ pass' = [pass EXCEPT ![p].pc = "rm_events", ![p].ignored = @ \cup {"rm_dates"}]
  /\ swallowed' = (swallowed \/ "rm_dates" \in pass'[p].ignored)
  /\ UNCHANGED <<ddl, calendar_connections, calendar_events,
                 bookings, nextId, now, last>>

\* .from('calendar_events').delete().in('id', idsToRemove); if (error) throw.
RemoveEvents(p) ==
  /\ pass[p].pc = "rm_events"
  /\ \/ /\ calendar_events' = DeleteEvents(calendar_events, pass[p].idsToRemove)
        /\ unavailable_dates' = OnDeleteSetNull(unavailable_dates, pass[p].idsToRemove)
        /\ pass' = [pass EXCEPT ![p].pc = "stamp", ![p].since = now]
     \/ /\ pass' = [pass EXCEPT ![p].pc = "failed", ![p].failedAt = "remove"]
        /\ UNCHANGED <<calendar_events, unavailable_dates>>
  /\ UNCHANGED <<ddl, calendar_connections, bookings,
                 nextId, now, last, swallowed>>

\* .update({ last_synced: new Date() }).eq('id', connection.id).  new Date()
\* is taken when the update is built, after the pass's previous call
\* returned (pass[p].since is the clock at that call) and before the update
\* reaches the table; the update's error is not read.
Stamp(p) ==
  /\ pass[p].pc = "stamp"
  /\ \/ /\ \E built \in pass[p].since .. now :
             calendar_connections' =
               {IF c.id = pass[p].conn.id THEN [c EXCEPT !.last_synced = built] ELSE c :
                  c \in calendar_connections}
        /\ pass' = [pass EXCEPT ![p].pc = "done"]
     \/ /\ UNCHANGED calendar_connections
        /\ pass' = [pass EXCEPT ![p].pc = "done", ![p].ignored = @ \cup {"stamp"}]
  /\ swallowed' = (swallowed \/ "stamp" \in pass'[p].ignored)
  /\ UNCHANGED <<ddl, calendar_events, unavailable_dates,
                 bookings, nextId, now, last>>

\* processCalendarEventsToUnavailableDates when each of its calls succeeds:
\* for every event in turn, the delete of its rows and the upsert of its days.
RECURSIVE processCalendarEventsToUnavailableDates(_, _, _)
processCalendarEventsToUnavailableDates(table, propertyId, events) ==
  IF events = <<>> THEN table
  ELSE LET event == Head(events)
           dates == DatesBetween(event.start_date, event.end_date)
           cleared == DeleteDatesOfEvents(table, {event.id})
       IN processCalendarEventsToUnavailableDates(
            IF dates # {}
            THEN UpsertEventDates(cleared, propertyId, dates, EventReason(event), event.id)
            ELSE cleared,
            propertyId, Tail(events))

\* syncCalendarEvents from the fetched feed on, when each of its calls
\* succeeds and the stored events have one row per external id: the tables
\* it leaves, from the tables it found.
syncCalendarEvents(before, connection, feed, t, firstId) ==
  LET map == {r \in before.events :
                /\ r.property_id = connection.property_id
                /\ r.source = connection.source
                /\ r.external_id # Null}
      staged == EventsToUpsert(connection, feed, map, t)
      remove == IdsToRemove(feed, map)
      projected == processCalendarEventsToUnavailableDates(before.dates,
                     connection.property_id,
                     UpsertedEvents(before.events, staged, firstId, t))
  IN [events |-> DeleteEvents(UpsertEvents(before.events, staged, firstId, t), remove),
      dates |-> OnDeleteSetNull(DeleteDatesOfEvents(projected, remove), remove)]

\* A loop without the try/catch around the pass: the first pass that throws
\* ends the batch, and the route answers 500.
Continue_StopsAtFailure(p) ==
  /\ pass[p].pc \in {"done", "failed"}
  /\ last' = IF pass[p].pc = "done"
             THEN [NoLast EXCEPT !.valid = TRUE, !.cid = pass[p].conn.id,
                     !.feed = pass[p].feed, !.events = calendar_events,
                     !.dates = unavailable_dates]
             ELSE IF pass[p].failedAt = "remove"
             THEN [NoLast EXCEPT !.cid = pass[p].conn.id, !.feed = pass[p].feed,
                     !.failedAt = pass[p].failedAt, !.before = pass[p].before,
                     !.firstId = nextId - GeneratedIds(pass[p].eventsToUpsert)]
             ELSE NoLast
  /\ LET ok == pass[p].pc = "done"
         outcomes == Append(pass[p].outcomes, [id |-> pass[p].conn.id, success |-> ok])
         results == IF pass[p].kind = "sync"
                    THEN Append(pass[p].results,
                                [source |-> pass[p].conn.source, success |-> ok])
                    ELSE pass[p].results
     IN pass' = [pass EXCEPT ![p] =
          IF pass[p].todo # <<>> /\ ok
          THEN [IdlePass EXCEPT !.pc = "fetch", !.kind = pass[p].kind,
                  !.property = pass[p].property, !.caller = pass[p].caller,
                  !.conn = Head(pass[p].todo), !.todo = Tail(pass[p].todo),
                  !.batch = pass[p].batch, !.outcomes = outcomes, !.results = results]
          ELSE Responded([pass[p] EXCEPT !.outcomes = outcomes],
                         [status |-> IF ok \/ pass[p].kind = "import" THEN 200 ELSE 500,
                          success |-> ok \/ pass[p].kind = "import",
                          syncError |-> pass[p].kind = "import" /\ ~ok,
                          results |-> results, count |-> 0])]
  /\ UNCHANGED <<ddl, calendar_connections, calendar_events,
                 unavailable_dates, bookings, nextId, now, swallowed>>

\* The caller after the pass returned or threw: the loop of the sync route
\* and of syncAllCalendars goes on to the next connection, the sync route
\* pushing an entry to results; after the last one the route answers.
Continue(p) ==
  /\ pass[p].pc \in {"done", "failed"}
  /\ last' = IF pass[p].pc = "done"
             THEN [NoLast EXCEPT !.valid = TRUE, !.cid = pass[p].conn.id,
                     !.feed = pass[p].feed, !.events = calendar_events,
                     !.dates = unavailable_dates]
             ELSE IF pass[p].failedAt = "remove"
             THEN [NoLast EXCEPT !.cid = pass[p].conn.id, !.feed = pass[p].feed,
                     !.failedAt = pass[p].failedAt, !.before = pass[p].before,
                     !.firstId = nextId - GeneratedIds(pass[p].eventsToUpsert)]
             ELSE NoLast
  /\ LET ok == pass[p].pc = "done"
         outcomes == Append(pass[p].outcomes, [id |-> pass[p].conn.id, success |-> ok])
         results == IF pass[p].kind = "sync"
                    THEN Append(pass[p].results,
                                [source |-> pass[p].conn.source, success |-> ok])
                    ELSE pass[p].results
     IN pass' = [pass EXCEPT ![p] =
          IF pass[p].todo # <<>>
          THEN [IdlePass EXCEPT !.pc = "fetch", !.kind = pass[p].kind,
                  !.property = pass[p].property, !.caller = pass[p].caller,
                  !.conn = Head(pass[p].todo), !.todo = Tail(pass[p].todo),
                  !.batch = pass[p].batch, !.outcomes = outcomes, !.results = results]
          ELSE Responded([pass[p] EXCEPT !.outcomes = outcomes],
                         [status |-> 200, success |-> TRUE,
                          syncError |-> pass[p].kind = "import" /\ ~ok,
                          results |-> results, count |-> 0])]
  /\ UNCHANGED <<ddl, calendar_connections, calendar_events,
                 unavailable_dates, bookings, nextId, now, swallowed>>

\* The answer is sent; the request is over.
Return(p) ==
  /\ pass[p].pc = "responded"
  /\ pass' = [pass EXCEPT ![p] = IdlePass]
  /\ UNCHANGED <<ddl, calendar_connections, calendar_events, unavailable_dates,
                 bookings, nextId, now, last, swallowed>>

\* ------------------------------------------------------------------ bookings and payments
\* The request p when its handler has returned or thrown.
Handled(p) == [pass EXCEPT ![p] = IdlePass]

\* The property the bookings route auto-confirms in development.
TEST_PROPERTY_ID == "p1"

\* process.env.NODE_ENV of the server that answers a request.
NodeEnvs == {"production", "development"}

\* POST /api/bookings: the booking is stored as pending; in development a
\* booking of the test property is stored as confirmed, and the route goes
\* on to block its days.
CreateBooking(p, seq, days, envs) ==
  /\ pass[p].pc = "idle"
  /\ seq => Quiet
  /\ \E b \in BookingIds, property \in Properties, check_in, check_out \in days,
        env \in envs :
       /\ \A x \in bookings : x.id # b
       /\ check_in < check_out
       /\ LET test == env = "development" /\ property = TEST_PROPERTY_ID
              booking == [id |-> b, property_id |-> property,
                          check_in |-> Midnight(check_in),
                          check_out |-> Midnight(check_out),
                          status |-> IF test THEN "confirmed" ELSE "pending"]
          IN /\ bookings' = bookings \cup {booking}
             /\ pass' = [pass EXCEPT ![p] =
                  IF test
                  THEN [IdlePass EXCEPT !.pc = "booking_dates", !.kind = "booking",
                          !.property = property, !.booking = booking]
                  ELSE IdlePass]
  /\ UNCHANGED <<ddl, calendar_connections, calendar_events,
                 unavailable_dates, nextId, now, last, swallowed>>

\* The development branch's upsert of one row per night (while (blockDate <
\* checkOut)); its error is logged.
BookingDates(p) ==
  /\ pass[p].pc = "booking_dates"
  /\ LET b == pass[p].booking
         dates == DatesBetween(b.check_in, b.check_out)
     IN \/ /\ dates # {}
           /\ unavailable_dates' = UpsertBookingDates(unavailable_dates, b.property_id,
                 dates, BookingReason(b.id), b.id)
           /\ UNCHANGED swallowed
        \/ /\ UNCHANGED unavailable_dates
           /\ swallowed' = (swallowed \/ dates # {})
  /\ pass' = Handled(p)
  /\ last' = NoLast
  /\ UNCHANGED <<ddl, calendar_connections, calendar_events, bookings, nextId, now>>

SetStatus(b, status) ==
  {IF x.id = b THEN [x EXCEPT !.status = status] ELSE x : x \in bookings}

\* handleSuccessfulPayment, first await: the select of the booking of the
\* payment; the handler returns when the booking read is confirmed.
PaymentSucceeded(p, seq) ==
  /\ pass[p].pc = "idle"
  /\ seq => Quiet
  /\ \E b \in bookings :
       /\ b.status # "confirmed"
       /\ pass' = [pass EXCEPT ![p] =
            [IdlePass EXCEPT !.pc = "pay_update", !.kind = "payment_succeeded",
               !.property = b.property_id, !.booking = b]]
  /\ UNCHANGED <<ddl, calendar_connections, calendar_events, unavailable_dates,
                 bookings, nextId, now, last, swallowed>>

\* Second await: the update of the status to confirmed; if (error) throw.
PaymentUpdate(p) ==
  /\ pass[p].pc = "pay_update"
  /\ \/ /\ bookings' = SetStatus(pass[p].booking.id, "confirmed")
        /\ pass' = [pass EXCEPT ![p].pc = "pay_dates"]
     \/ /\ UNCHANGED bookings
        /\ pass' = Handled(p)
  /\ UNCHANGED <<ddl, calendar_connections, calendar_events, unavailable_dates,
                 nextId, now, last, swallowed>>

\* Third await: the upsert of one row per day of the stay as the select read
\* it (while (currentDate < checkOut)); its error is logged.
PaymentDates(p) ==
  /\ pass[p].pc = "pay_dates"
  /\ LET b == pass[p].booking
         dates == DatesBetween(b.check_in, b.check_out)
     IN \/ /\ dates # {}
           /\ unavailable_dates' = UpsertBookingDates(unavailable_dates, b.property_id,
                 dates, BookingReason(b.id), b.id)
           /\ UNCHANGED swallowed
        \/ /\ UNCHANGED unavailable_dates
           /\ swallowed' = (swallowed \/ dates # {})
  /\ pass' = Handled(p)
  /\ last' = NoLast
  /\ UNCHANGED <<ddl, calendar_connections, calendar_events, bookings, nextId, now>>

\* handleFailedPayment: the status update only.
PaymentFailed(seq) ==
  /\ seq => Quiet
  /\ \E b \in bookings : bookings' = SetStatus(b.id, "payment_failed")
  /\ UNCHANGED <<ddl, calendar_connections, calendar_events,
                 unavailable_dates, nextId, now, pass, last, swallowed>>

\* handleCanceledPayment: the status update only.
PaymentCanceled(seq) ==
  /\ seq => Quiet
  /\ \E b \in bookings : bookings' = SetStatus(b.id, "cancelled")
  /\ UNCHANGED <<ddl, calendar_connections, calendar_events,
                 unavailable_dates, nextId, now, pass, last, swallowed>>

\* handleRefund, first await: the update of the status to refunded.
Refund(p, seq) ==
  /\ pass[p].pc = "idle"
  /\ seq => Quiet
  /\ \E b \in bookings :
       /\ bookings' = SetStatus(b.id, "refunded")
       /\ pass' = [pass EXCEPT ![p] =
            [IdlePass EXCEPT !.pc = "refund_select", !.kind = "refund",
               !.property = b.property_id, !.booking = b]]
  /\ UNCHANGED <<ddl, calendar_connections, calendar_events, unavailable_dates,
                 nextId, now, last, swallowed>>

\* Second await: the select of the booking, whose error is not read; without
\* a booking the handler skips the delete.
RefundSelect(p) ==
  /\ pass[p].pc = "refund_select"
  /\ \/ /\ \E b \in bookings : b.id = pass[p].booking.id
        /\ pass' = [pass EXCEPT ![p].pc = "refund_dates"]
        /\ UNCHANGED swallowed
     \/ /\ pass' = Handled(p)
        /\ swallowed' = TRUE
  /\ UNCHANGED <<ddl, calendar_connections, calendar_events, unavailable_dates,
                 bookings, nextId, now, last>>

\* Third await: the delete of the rows that carry the booking's id, whose
\* error is logged.
RefundDates(p) ==
  /\ pass[p].pc = "refund_dates"
  /\ \/ /\ unavailable_dates' = DeleteDatesOfBooking(unavailable_dates, pass[p].booking.id)
        /\ UNCHANGED swallowed
     \/ /\ UNCHANGED unavailable_dates
        /\ swallowed' = TRUE
  /\ pass' = Handled(p)
  /\ last' = NoLast
  /\ UNCHANGED <<ddl, calendar_connections, calendar_events, bookings, nextId, now>>

\* ------------------------------------------------------------------ manual events
ManualSummaries == {"Blocked"}

\* After the event is written: the delete of its old rows when the form
\* edits, then the upsert when the range has a day, else the handler ends
\* (its last select refreshes the list on the page and writes nothing).
AfterEvent(event, editing) ==
  IF editing THEN "form_delete"
  ELSE IF DatesBetween(event.start_date, event.end_date) # {} THEN "form_upsert"
  ELSE "idle"

\* handleManualEvent, a new event: the insert with external_id null, which
\* returns the id.
ManualCreate(p, seq, properties, sources, days) ==
  /\ pass[p].pc = "idle"
  /\ seq => Quiet
  /\ nextId <= MaxId
  /\ \E property \in properties, source \in sources, summary \in ManualSummaries,
        start, end \in days :
       /\ start <= end
       /\ LET event == [id |-> nextId, property_id |-> property, source |-> source,
                        external_id |-> Null, summary |-> summary,
                        start_date |-> Midnight(start), end_date |-> Midnight(end),
                        updated_at |-> now]
          IN /\ calendar_events' = calendar_events \cup {event}
             /\ pass' = [pass EXCEPT ![p] =
                  IF AfterEvent(event, FALSE) = "idle" THEN IdlePass
                  ELSE [IdlePass EXCEPT !.pc = AfterEvent(event, FALSE),
                          !.kind = "manual", !.property = property, !.event = event]]
  /\ nextId' = nextId + 1
  /\ last' = NoLast
  /\ UNCHANGED <<ddl, calendar_connections, unavailable_dates, bookings, now,
                 swallowed>>

\* handleManualEvent, an edited event: the update by id (external_id: null
\* with the form's values; the README's trigger sets updated_at).
ManualEdit(p, seq, sources, days) ==
  /\ pass[p].pc = "idle"
  /\ seq => Quiet
  /\ \E old \in calendar_events, source \in sources, summary \in ManualSummaries,
        start, end \in days :
       /\ start <= end
       /\ LET event == [old EXCEPT !.source = source, !.external_id = Null,
                          !.summary = summary, !.start_date = Midnight(start),
                          !.end_date = Midnight(end),
                          !.updated_at = IF ddl = "sql" THEN now ELSE @]
          IN /\ calendar_events' = (calendar_events \ {old}) \cup {event}
             /\ pass' = [pass EXCEPT ![p] =
                  [IdlePass EXCEPT !.pc = AfterEvent(event, TRUE), !.kind = "manual",
                     !.property = event.property_id, !.event = event]]
  /\ last' = NoLast
  /\ UNCHANGED <<ddl, calendar_connections, unavailable_dates, bookings, nextId,
                 now, swallowed>>

\* The edit's delete of the rows of the event, whose error is not read.
ManualDatesDelete(p) ==
  /\ pass[p].pc = "form_delete"
  /\ \/ /\ unavailable_dates' = DeleteDatesOfEvents(unavailable_dates, {pass[p].event.id})
        /\ UNCHANGED swallowed
     \/ /\ UNCHANGED unavailable_dates
        /\ swallowed' = TRUE
  /\ pass' = [pass EXCEPT ![p] =
       IF AfterEvent(pass[p].event, FALSE) = "idle" THEN IdlePass
       ELSE [pass[p] EXCEPT !.pc = AfterEvent(pass[p].event, FALSE)]]
  /\ last' = NoLast
  /\ UNCHANGED <<ddl, calendar_connections, calendar_events, bookings, nextId, now>>

\* The upsert of one row per day of the form's range, whose error is shown
\* to the host next to the stored event.  event_id references
\* calendar_events(id): the upsert fails when the event is gone.
ManualDatesUpsert(p) ==
  /\ pass[p].pc = "form_upsert"
  /\ LET event == pass[p].event IN
     \/ /\ \E r \in calendar_events : r.id = event.id
        /\ unavailable_dates' = UpsertEventDates(unavailable_dates, event.property_id,
              DatesBetween(event.start_date, event.end_date), event.summary, event.id)
        /\ UNCHANGED swallowed
     \/ /\ UNCHANGED unavailable_dates
        /\ swallowed' = TRUE
  /\ pass' = Handled(p)
  /\ last' = NoLast
  /\ UNCHANGED <<ddl, calendar_connections, calendar_events, bookings, nextId, now>>

\* handleDeleteEvent, first await: the delete of the event's rows, whose
\* error is logged.
ManualDelete(p, seq) ==
  /\ pass[p].pc = "idle"
  /\ seq => Quiet
  /\ \E old \in calendar_events :
       /\ pass' = [pass EXCEPT ![p] =
            [IdlePass EXCEPT !.pc = "delete_event", !.kind = "manual_delete",
               !.property = old.property_id, !.event = old]]
       /\ \/ /\ unavailable_dates' = DeleteDatesOfEvents(unavailable_dates, {old.id})
             /\ UNCHANGED swallowed
          \/ /\ UNCHANGED unavailable_dates
             /\ swallowed' = TRUE
  /\ last' = NoLast
  /\ UNCHANGED <<ddl, calendar_connections, calendar_events, bookings, nextId, now>>

\* Second await: the delete of the event; if (error) throw, which the catch
\* shows to the host and logs, the event then staying without the rows
\* deleted before.
ManualDeleteEvent(p) ==
  /\ pass[p].pc = "delete_event"
  /\ \/ /\ calendar_events' = DeleteEvents(calendar_events, {pass[p].event.id})
        /\ unavailable_dates' = OnDeleteSetNull(unavailable_dates, {pass[p].event.id})
        /\ UNCHANGED swallowed
     \/ /\ UNCHANGED <<calendar_events, unavailable_dates>>
        /\ swallowed' = TRUE
  /\ pass' = Handled(p)
  /\ last' = NoLast
  /\ UNCHANGED <<ddl, calendar_connections, bookings, nextId, now>>

\* ------------------------------------------------------------------ export
\* The VEVENT of a booking: UID booking-<id>, DTSTART check_in, DTEND
\* check_out (as instants: formatDate(new Date(x)) names the instant x).
BookingVEvent(booking) ==
  [uid |-> "booking-" \o booking.id, dtstart |-> booking.check_in,
   dtend |-> booking.check_out]

\* The VEVENT of an unavailable_dates row: one day from its date (the row is
\* named by its date, the property having one row per date).
BlockedVEvent(blockedDate) ==
  [uid |-> "blocked-" \o ToString(blockedDate.date),
   dtstart |-> Midnight(blockedDate.date),
   dtend |-> Midnight(blockedDate.date) + SlotsPerDay]

\* The VEVENT of a calendar_events row: endDate.setDate(getDate() + 1) moves
\* DTEND one day past end_date.
EventVEvent(event) ==
  [uid |-> "event-" \o ToString(event.id), dtstart |-> event.start_date,
   dtend |-> event.end_date + SlotsPerDay]

\* generatePropertyIcal once its four selects have returned: the header
\* with the property's name ('Property' without one), a VEVENT for each row
\* read, bookings first, then blocked dates, then calendar events, and
\* END:VCALENDAR.  A select that failed returned no data, and its section is
\* skipped like an empty one.
generatePropertyIcal(name, bookingRows, blockedDates, calendarEvents) ==
  [header |-> <<"BEGIN:VCALENDAR", "VERSION:2.0",
                "PRODID:-//MVP1//Property Calendar//EN",
                "X-WR-CALNAME:" \o (IF name = Null THEN "Property" ELSE name)
                   \o " Calendar">>,
   vevents |-> [i \in 1..Len(bookingRows) |-> BookingVEvent(bookingRows[i])]
               \o [i \in 1..Len(blockedDates) |-> BlockedVEvent(blockedDates[i])]
               \o [i \in 1..Len(calendarEvents) |-> EventVEvent(calendarEvents[i])],
   end |-> "END:VCALENDAR"]

\* The property has something to export: a confirmed booking, an
\* unavailable_dates row or a calendar event.
HasContent(propertyId) ==
  \/ \E b \in bookings : b.property_id = propertyId /\ b.status = "confirmed"
  \/ \E r \in unavailable_dates : r.property_id = propertyId
  \/ \E e \in calendar_events : e.property_id = propertyId

\* GET /api/calendar/[propertyId]/export, and generatePropertyIcal's first
\* await: the select of the property's name, .single(); its error is not
\* read, and a property that is not stored has no name either.
ExportStart(p, seq, propertyIds) ==
  /\ pass[p].pc = "idle"
  /\ seq => Quiet
  /\ \E propertyId \in propertyIds, error \in BOOLEAN :
       LET rows == {r \in PropertiesTable : r.id = propertyId}
       IN /\ error => rows # {}
          /\ pass' = [pass EXCEPT ![p] =
               [IdlePass EXCEPT !.pc = "ical_bookings", !.kind = "export",
                  !.property = propertyId, !.before = Tables,
                  !.ignored = IF error THEN {"property"} ELSE {},
                  !.ical = [NoIcal EXCEPT
                              !.blank = ~HasContent(propertyId),
                              !.name = IF error \/ rows = {} THEN Null
                                       ELSE (CHOOSE r \in rows : TRUE).name]]]
          /\ swallowed' = (swallowed \/ error)
  /\ UNCHANGED <<ddl, calendar_connections, calendar_events, unavailable_dates,
                 bookings, nextId, now, last>>

\* An export whose bookings query has no status filter: bookings that are
\* not confirmed are exported too.
IcalBookings_AnyStatus(p) ==
  /\ pass[p].pc = "ical_bookings"
  /\ \E error \in BOOLEAN :
     \E rows \in IF error THEN {<<>>}
                 ELSE OrdersOf({b \in bookings : b.property_id = pass[p].property}) :
       /\ pass' = [pass EXCEPT ![p].pc = "ical_dates",
                     ![p].ical.bookings = rows,
                     ![p].ical.steady = @ /\ Tables = pass[p].before,
                     ![p].ical.blank = @ /\ ~HasContent(pass[p].property),
                     ![p].ignored = IF error THEN @ \cup {"bookings"} ELSE @]
       /\ swallowed' = (swallowed \/ error)
  /\ UNCHANGED <<ddl, calendar_connections, calendar_events, unavailable_dates,
                 bookings, nextId, now, last>>

\* Second await: the select of the property's bookings with status
\* 'confirmed', in the order the table returns them; its error is not read.
IcalBookings(p) ==
  /\ pass[p].pc = "ical_bookings"
  /\ \E error \in BOOLEAN :
     \E rows \in IF error THEN {<<>>}
                 ELSE OrdersOf({b \in bookings : /\ b.property_id = pass[p].property
                                                 /\ b.status = "confirmed"}) :
       /\ pass' = [pass EXCEPT ![p].pc = "ical_dates",
                     ![p].ical.bookings = rows,
                     ![p].ical.steady = @ /\ Tables = pass[p].before,
                     ![p].ical.blank = @ /\ ~HasContent(pass[p].property),
                     ![p].ignored = IF error THEN @ \cup {"bookings"} ELSE @]
       /\ swallowed' = (swallowed \/ error)
  /\ UNCHANGED <<ddl, calendar_connections, calendar_events, unavailable_dates,
                 bookings, nextId, now, last>>

\* Third await: the select of every unavailable_dates row of the property;
\* its error is not read.
IcalBlockedDates(p) ==
  /\ pass[p].pc = "ical_dates"
  /\ \E error \in BOOLEAN :
     \E rows \in IF error THEN {<<>>}
                 ELSE OrdersOf({r \in unavailable_dates :
                                  r.property_id = pass[p].property}) :
       /\ pass' = [pass EXCEPT ![p].pc = "ical_events",
                     ![p].ical.blockedDates = rows,
                     ![p].ical.steady = @ /\ Tables = pass[p].before,
                     ![p].ical.blank = @ /\ ~HasContent(pass[p].property),
                     ![p].ignored = IF error THEN @ \cup {"blockedDates"} ELSE @]
       /\ swallowed' = (swallowed \/ error)
  /\ UNCHANGED <<ddl, calendar_connections, calendar_events, unavailable_dates,
                 bookings, nextId, now, last>>

\* Fourth await: the select of every calendar_events row of the property,
\* its error not read; then the document is put together and the route
\* answers with it.
IcalCalendarEvents(p) ==
  /\ pass[p].pc = "ical_events"
  /\ \E error \in BOOLEAN :
     \E rows \in IF error THEN {<<>>}
                 ELSE OrdersOf({e \in calendar_events :
                                  e.property_id = pass[p].property}) :
       /\ pass' = [pass EXCEPT ![p] =
            [Responded(pass[p], [NoResponse EXCEPT !.status = 200]) EXCEPT
               !.before = pass[p].before,
               !.ignored = IF error THEN pass[p].ignored \cup {"calendarEvents"}
                           ELSE pass[p].ignored,
               !.ical = [pass[p].ical EXCEPT
                  !.steady = @ /\ Tables = pass[p].before,
                  !.blank = @ /\ ~HasContent(pass[p].property),
                  !.document = generatePropertyIcal(pass[p].ical.name,
                                  pass[p].ical.bookings, pass[p].ical.blockedDates,
                                  rows)]]]
       /\ swallowed' = (swallowed \/ error)
  /\ UNCHANGED <<ddl, calendar_connections, calendar_events, unavailable_dates,
                 bookings, nextId, now, last>>

\* ------------------------------------------------------------------ specifications
\* The steps of the sync pass of request p.
PassStep(p) ==
  \/ SelectExisting(p)
  \/ StageEvents(p)
  \/ UpsertStep(p)
  \/ ProjectDelete(p)
  \/ ProjectUpsert(p)
  \/ RemoveDates(p)
  \/ RemoveEvents(p)
  \/ Stamp(p)
  \/ Continue(p)
  \/ Return(p)

\* The owner of p1 imports a feed and syncs p1.
OwnerImports(urls) == Requests({"p1"}, {"airbnb"}, urls, {"h1"})
OwnerSyncs == Requests({"p1"}, {Null}, {Null}, {"h1"})
OwnerProcesses == Requests({"p1"}, {Null, "airbnb"}, {Null}, {"h1"})

\* Imports and syncs of one client, one request at a time, against any feed.
Next ==
  \/ ImportStart(1, TRUE, OwnerImports(Urls))
  \/ ConnSelect(1)
  \/ ConnWrite(1)
  \/ SyncStart(1, TRUE, OwnerSyncs)
  \/ SyncConnections(1)
  \/ Fetch(1, SyncFeeds)
  \/ PassStep(1)

Spec == Init /\ [][Next]_vars

\* A feed of one all-day event, or of none.
RaceFeeds ==
  {f \in FeedsOver(EntriesOver({<<Midnight(0), Midnight(1)>>})) :
     \A i \in DOMAIN f : f[i].uid = "u1" /\ f[i].summary = "Busy"}

\* What the host enters in the manual event form.
HostSources == {"other"}
HostDays == {0, 1}

\* Two requests in flight at once, their awaits interleaved, each of them a
\* booking or a payment webhook, request 2 also the host's form for manual
\* events.
NextHandlers ==
  \/ \E p \in Procs :
       \/ CreateBooking(p, FALSE, HostDays, NodeEnvs)
       \/ BookingDates(p)
       \/ PaymentSucceeded(p, FALSE)
       \/ PaymentUpdate(p)
       \/ PaymentDates(p)
       \/ Refund(p, FALSE)
       \/ RefundSelect(p)
       \/ RefundDates(p)
  \/ ManualCreate(2, FALSE, Properties, HostSources, HostDays)
  \/ ManualEdit(2, FALSE, HostSources, HostDays)
  \/ ManualDatesDelete(2)
  \/ ManualDatesUpsert(2)
  \/ ManualDelete(2, FALSE)
  \/ ManualDeleteEvent(2)
  \/ PaymentFailed(FALSE)
  \/ PaymentCanceled(FALSE)

SpecHandlers == Init /\ [][NextHandlers]_vars

\* Two requests in flight at once, their awaits interleaved: request 1 is
\* the owner's import, sync or call of the process route, request 2 a
\* booking or a payment webhook.
NextGuests ==
  \/ ImportStart(1, FALSE, OwnerImports({"url1"}))
  \/ ConnSelect(1)
  \/ ConnWrite(1)
  \/ SyncStart(1, FALSE, OwnerSyncs)
  \/ SyncConnections(1)
  \/ Fetch(1, RaceFeeds)
  \/ PassStep(1)
  \/ ProcessStart(1, FALSE, OwnerProcesses)
  \/ ProcessEvents(1)
  \/ ProcessAnswer(1)
  \/ CreateBooking(2, FALSE, HostDays, NodeEnvs)
  \/ BookingDates(2)
  \/ PaymentSucceeded(2, FALSE)
  \/ PaymentUpdate(2)
  \/ PaymentDates(2)
  \/ Refund(2, FALSE)
  \/ RefundSelect(2)
  \/ RefundDates(2)
  \/ PaymentFailed(FALSE)
  \/ PaymentCanceled(FALSE)

SpecGuests == Init /\ [][NextGuests]_vars

\* Two requests in flight at once, their awaits interleaved: two imports, or
\* an import and a sync.
NextConc ==
  \/ \E p \in Procs :
       \/ ImportStart(p, FALSE, OwnerImports({"url1"}))
       \/ ConnSelect(p)
       \/ ConnWrite(p)
       \/ Fetch(p, RaceFeeds)
       \/ PassStep(p)
  \/ SyncStart(2, FALSE, OwnerSyncs)
  \/ SyncConnections(2)

SpecConc == Init /\ [][NextConc]_vars

\* Any host asks for any property, and the scheduler runs the cron route:
\* one request at a time.
AnyImports == Requests({"p1", "p2", MissingProperty}, Sources, {"url1"}, Hosts)
AnySyncs == Requests({"p1", "p2", MissingProperty}, {Null}, {Null}, Hosts)

NextHosts ==
  \/ ImportStart(1, TRUE, AnyImports)
  \/ ConnSelect(1)
  \/ ConnWrite(1)
  \/ SyncStart(1, TRUE, AnySyncs)
  \/ SyncConnections(1)
  \/ SyncAllStart(1, TRUE)
  \/ Fetch(1, RaceFeeds)
  \/ PassStep(1)

SpecHosts == Init /\ [][NextHosts]_vars

\* Feeds with components the pass must skip: a VTIMEZONE, a VFREEBUSY with
\* both dates, a VEVENT without DTEND, a VEVENT without DTSTART, next to
\* one-day events.
MixedEntries ==
  {[uid |-> u, type |-> k[1], has_start |-> k[2], has_end |-> k[3],
    summary |-> "Busy", start |-> Midnight(0), end |-> Midnight(1)] :
     u \in Uids,
     k \in {<<"VEVENT", TRUE, TRUE>>, <<"VTIMEZONE", FALSE, FALSE>>,
            <<"VFREEBUSY", TRUE, TRUE>>,
            <<"VEVENT", TRUE, FALSE>>, <<"VEVENT", FALSE, TRUE>>}}

MixedFeeds == FeedsOver(MixedEntries)

\* The owner's imports and syncs against feeds that hold malformed entries.
NextFeeds ==
  \/ ImportStart(1, TRUE, OwnerImports({"url1"}))
  \/ ConnSelect(1)
  \/ ConnWrite(1)
  \/ SyncStart(1, TRUE, OwnerSyncs)
  \/ SyncConnections(1)
  \/ Fetch(1, MixedFeeds)
  \/ PassStep(1)

SpecFeeds == Init /\ [][NextFeeds]_vars

\* The tables after the owner's import of a feed with one one-day event
\* (UID u1), the update of last_synced not having gone through.  The ids of
\* the two tables are independent: the connection and the event both have
\* the first one.
InitRetry ==
  /\ ddl \in Ddls
  /\ calendar_connections =
       {[id |-> 1, property_id |-> "p1", source |-> "airbnb", ical_url |-> "url1",
         last_synced |-> 0]}
  /\ calendar_events =
       {[id |-> 1, property_id |-> "p1", source |-> "airbnb", external_id |-> "u1",
         summary |-> "Busy", start_date |-> Midnight(0), end_date |-> Midnight(1),
         updated_at |-> 0]}
  /\ unavailable_dates =
       {[property_id |-> "p1", date |-> 0, reason |-> "Busy", event_id |-> 1,
         booking_id |-> NoBooking]}
  /\ bookings = {}
  /\ nextId = 2
  /\ now = 0
  /\ pass = [p \in Procs |-> IdlePass]
  /\ last = NoLast
  /\ swallowed = TRUE

\* One-day events of either UID on day 0 or day 1.
RetryFeeds ==
  {f \in FeedsOver(EntriesOver({<<Midnight(0), Midnight(1)>>, <<Midnight(1), Midnight(2)>>})) :
     \A i \in DOMAIN f : f[i].summary = "Busy"}

\* From there: syncs of the property, a booking and its payment.
NextRetry ==
  \/ SyncStart(1, TRUE, OwnerSyncs)
  \/ SyncConnections(1)
  \/ Fetch(1, RetryFeeds)
  \/ PassStep(1)
  \/ CreateBooking(1, TRUE, HostDays, {"production"})
  \/ PaymentSucceeded(1, TRUE)
  \/ PaymentUpdate(1)
  \/ PaymentDates(1)

SpecRetry == InitRetry /\ [][NextRetry]_vars

\* Two requests in flight at once, their awaits interleaved: request 1 is
\* the owner's import of the feed, request 2 the form in which a host
\* enters a manual event at any moment (of p1 with the connection's source,
\* or an event without a day of p2), gives a stored event another source and
\* a range without a day, or deletes a stored event.
NextManual ==
  \/ ImportStart(1, FALSE, OwnerImports({"url1"}))
  \/ ConnSelect(1)
  \/ ConnWrite(1)
  \/ Fetch(1, RaceFeeds)
  \/ PassStep(1)
  \/ ManualCreate(2, FALSE, {"p1"}, {"airbnb"}, HostDays)
  \/ ManualCreate(2, FALSE, {"p2"}, {"airbnb"}, {0})
  \/ ManualEdit(2, FALSE, {"other"}, {0})
  \/ ManualDatesDelete(2)
  \/ ManualDatesUpsert(2)
  \/ ManualDelete(2, FALSE)
  \/ ManualDeleteEvent(2)

SpecManual == Init /\ [][NextManual]_vars

\* Two requests in flight at once, their awaits interleaved: request 1 is
\* an export, request 2 a booking, its payment, or the form in which a host
\* enters a manual event (of p1, or an event without a day of p2).
NextExport ==
  \/ ExportStart(1, FALSE, {"p1", MissingProperty})
  \/ IcalBookings(1)
  \/ IcalBlockedDates(1)
  \/ IcalCalendarEvents(1)
  \/ Return(1)
  \/ CreateBooking(2, FALSE, HostDays, NodeEnvs)
  \/ BookingDates(2)
  \/ PaymentSucceeded(2, FALSE)
  \/ PaymentUpdate(2)
  \/ PaymentDates(2)
  \/ ManualCreate(2, FALSE, {"p1"}, HostSources, HostDays)
  \/ ManualCreate(2, FALSE, {"p2"}, HostSources, {0})
  \/ ManualDatesUpsert(2)

SpecExport == Init /\ [][NextExport]_vars

\* Two requests in flight at once, their awaits interleaved: request 1 is
\* an export, request 2 the owner's import of the feed.
NextRoundTrip ==
  \/ ExportStart(1, FALSE, {"p1", MissingProperty})
  \/ IcalBookings(1)
  \/ IcalBlockedDates(1)
  \/ IcalCalendarEvents(1)
  \/ Return(1)
  \/ ImportStart(2, FALSE, OwnerImports({"url1"}))
  \/ ConnSelect(2)
  \/ ConnWrite(2)
  \/ Fetch(2, RaceFeeds)
  \/ PassStep(2)

SpecRoundTrip == Init /\ [][NextRoundTrip]_vars

\* ------------------------------------------------------------------ claims
\* The stored events of the connection that carry an external id.
ImportedEvents(conn) ==
  {r \in calendar_events :
     r.property_id = conn.property_id /\ r.source = conn.source /\ r.external_id # Null}

\* C1: a sync pass that follows a completed pass of the same connection, with
\* no write in between and the same feed, every call of both passes having
\* succeeded, reports added = 0, updated = 0, removed = 0 and leaves
\* calendar_events and unavailable_dates as the first pass left them.
C1_SecondPassChangesNothing ==
  \A p \in Procs :
    (pass[p].pc = "done" /\ last.valid /\ last.cid = pass[p].conn.id
       /\ last.feed = pass[p].feed /\ ~swallowed)
    => /\ pass[p].result = ZeroResult
       /\ calendar_events = last.events
       /\ unavailable_dates = last.dates

\* C2: a completed pass that read the stored events, no call having failed
\* before, counts as added the feed events whose external id was not
\* stored, as updated the feed events whose external id was stored with
\* another summary, start or end, as removed the stored events the feed does
\* not list; a stored event the feed lists unchanged is not rewritten.
C2_CountsFollowTheDiff ==
  \A p \in Procs :
    (pass[p].pc = "done" /\ ~swallowed) =>
      LET stored == {r \in pass[p].before.events :
                       /\ r.property_id = pass[p].conn.property_id
                       /\ r.source = pass[p].conn.source
                       /\ r.external_id # Null}
          es == Range(StorableEntries(pass[p].feed))
          known(e) == \E r \in stored : r.external_id = e.uid
          row(e) == CHOOSE r \in stored : r.external_id = e.uid
          Differs(e, r) == \/ r.summary # e.summary
                           \/ r.start_date # ColumnValue(e.start)
                           \/ r.end_date # ColumnValue(e.end)
      IN /\ pass[p].result.added = Cardinality({e \in es : ~known(e)})
         /\ pass[p].result.updated =
              Cardinality({e \in es : known(e) /\ Differs(e, row(e))})
         /\ pass[p].result.removed =
              Cardinality({r \in stored : \A e \in es : e.uid # r.external_id})
         /\ \A e \in es : (known(e) /\ ~Differs(e, row(e))) => row(e) \in calendar_events

\* C3: when a pass has completed, the stored events of its connection that
\* carry an external id are the storable entries of its feed: one row per
\* UID of the feed, with the entry's summary, start and end, and no row for
\* another UID.
C3_StoredEventsAreTheFeed ==
  \A p \in Procs :
    pass[p].pc = "done" =>
      LET stored == ImportedEvents(pass[p].conn)
          es == Range(StorableEntries(pass[p].feed))
      IN /\ \A e \in es :
              /\ Cardinality({r \in stored : r.external_id = e.uid}) = 1
              /\ \A r \in stored : r.external_id = e.uid =>
                   /\ r.summary = e.summary
                   /\ r.start_date = e.start
                   /\ r.end_date = e.end
         /\ \A r \in stored : \E e \in es : e.uid = r.external_id

\* C10: when the upsert of the staged events or the removal of the vanished
\* events fails, the pass has written or deleted no unavailable_dates row,
\* calendar_events is as the pass found it, and so is the connection's
\* last_synced.
C10_FailedApplyChangesNothing ==
  \A p \in Procs :
    (pass[p].pc = "failed" /\ pass[p].failedAt \in {"upsert", "remove"})
    => /\ unavailable_dates = pass[p].before.dates
       /\ calendar_events = pass[p].before.events
       /\ calendar_connections = pass[p].before.connections

\* C4: the projection of one event, when its delete and its upsert succeed,
\* leaves as the rows that refer to the event one row per day from the day of
\* its start up to, not including, the day of its end.
C4_ProjectionIsEndExclusive ==
  [][\A p \in Procs :
       (pass[p].pc = "proj_upsert" /\ pass'[p].pc # "proj_upsert"
          /\ pass'[p].ignored = {})
       => LET event == pass[p].upsertedEvents[pass[p].k] IN
          {r.date : r \in {x \in unavailable_dates' : x.event_id = event.id}}
            = {d \in Days : DayOf(event.start_date) <= d /\ d < DayOf(event.end_date)}]_vars

\* C5: the removal of the events that vanished from the feed, when its delete
\* of dates succeeds, deletes every row that refers to a removed event and
\* leaves every row of a booking or of another event as it was.
C5_RemovalCascadeKeepsOtherOwners ==
  [][\A p \in Procs :
       (pass[p].pc = "rm_dates" /\ pass'[p].pc = "rm_events"
          /\ "rm_dates" \notin pass'[p].ignored)
       => /\ \A r \in unavailable_dates' : r.event_id \notin pass[p].idsToRemove
          /\ \A r \in unavailable_dates :
               (\/ r.booking_id # NoBooking
                \/ r.event_id # NoId /\ r.event_id \notin pass[p].idsToRemove)
               => r \in unavailable_dates']_vars

\* The rows of unavailable_dates for one day of one property.
RowsOn(property, d) ==
  {r \in unavailable_dates : r.property_id = property /\ r.date = d}

\* C6: between requests, none of whose calls failed, every day of a confirmed
\* booking's stay and every day of a stored event's range has exactly one row
\* of unavailable_dates.
C6_CoveredDaysHaveOneRow ==
  (Quiet /\ ~swallowed) =>
    /\ \A b \in bookings : b.status = "confirmed" =>
         \A d \in Days : (DayOf(b.check_in) <= d /\ d < DayOf(b.check_out)) =>
           Cardinality(RowsOn(b.property_id, d)) = 1
    /\ \A e \in calendar_events :
         \A d \in Days : (DayOf(e.start_date) <= d /\ d < DayOf(e.end_date)) =>
           Cardinality(RowsOn(e.property_id, d)) = 1

\* C7: a step that deletes a calendar event leaves no row of unavailable_dates
\* on a (property, date) whose row referred to that event.
C7_NoRowOutlivesItsEvent ==
  [][\A e \in calendar_events :
       (\A x \in calendar_events' : x.id # e.id) =>
         \A r \in unavailable_dates : r.event_id = e.id =>
           \A x \in unavailable_dates' :
             ~(x.property_id = r.property_id /\ x.date = r.date)]_vars

\* C8: no two rows of calendar_events have the same property, source and
\* non-null external id.
C8_OneEventPerExternalId ==
  \A r1, r2 \in calendar_events :
    (r1.external_id # Null /\ r1.property_id = r2.property_id
       /\ r1.source = r2.source /\ r1.external_id = r2.external_id)
    => r1 = r2

\* C9: no two rows of calendar_connections have the same property and source.
C9_OneConnectionPerSource ==
  \A c1, c2 \in calendar_connections :
    (c1.property_id = c2.property_id /\ c1.source = c2.source) => c1 = c2

\* C11: the step in which the fetch or the parse of the feed fails leaves
\* calendar_events, unavailable_dates and calendar_connections (last_synced
\* included) as the pass found them.
C11_FailedFetchWritesNothing ==
  [][\A p \in Procs :
       (pass[p].pc = "fetch" /\ pass'[p].pc = "failed")
       => /\ calendar_events' = calendar_events
          /\ unavailable_dates' = unavailable_dates
          /\ calendar_connections' = calendar_connections]_vars

\* A pass whose fetch failed, for a connection that has stored events,
\* projected dates and a last_synced.
C11_Witness ==
  \E p \in Procs :
    /\ pass[p].pc = "failed"
    /\ pass[p].failedAt = "fetch"
    /\ ImportedEvents(pass[p].conn) # {}
    /\ unavailable_dates # {}
    /\ \E c \in calendar_connections : c.id = pass[p].conn.id /\ c.last_synced > 0

\* C12: when an import for a property that already has a connection ends
\* with a failed sync pass, the stored connection still has the URL and the
\* last_synced it had before the import, and the answer reports a failure.
C12_FailedImportKeepsConnection ==
  \A p \in Procs :
    (/\ pass[p].pc = "responded"
     /\ pass[p].kind = "import"
     /\ pass[p].existingConnection # NoConn
     /\ pass[p].failedAt # "none")
    => /\ \E c \in calendar_connections :
            /\ c.id = pass[p].existingConnection.id
            /\ c.ical_url = pass[p].existingConnection.ical_url
            /\ c.last_synced = pass[p].existingConnection.last_synced
       /\ ~pass[p].response.success

\* C13: when a batch sync has answered, a pass was attempted for every
\* connection of the batch, in the order of the batch, whether or not
\* earlier passes failed.
C13_EveryConnectionIsAttempted ==
  \A p \in Procs :
    (/\ pass[p].pc = "responded"
     /\ pass[p].kind \in {"sync", "cron"}
     /\ pass[p].batch # <<>>)
    => /\ Len(pass[p].outcomes) = Len(pass[p].batch)
       /\ \A i \in DOMAIN pass[p].batch : pass[p].outcomes[i].id = pass[p].batch[i].id

\* A batch of two connections whose first pass failed and whose second pass
\* completed.
C13_Witness ==
  \E p \in Procs :
    /\ pass[p].pc = "responded"
    /\ pass[p].kind = "cron"
    /\ Len(pass[p].batch) = 2
    /\ Len(pass[p].outcomes) = 2
    /\ ~pass[p].outcomes[1].success
    /\ pass[p].outcomes[2].success

\* C14: the answer of a batch sync names, for every connection whose pass
\* failed, that connection with a failed outcome.
C14_AnswerNamesTheFailures ==
  \A p \in Procs :
    (/\ pass[p].pc = "responded"
     /\ pass[p].kind \in {"sync", "cron"}
     /\ pass[p].batch # <<>>)
    => \A i \in DOMAIN pass[p].outcomes :
         ~pass[p].outcomes[i].success
         => \E j \in DOMAIN pass[p].response.results :
              /\ pass[p].response.results[j].source = pass[p].batch[i].source
              /\ ~pass[p].response.results[j].success

\* C15: no two requests are inside a sync pass of the same connection at the
\* same time.
C15_OnePassPerConnection ==
  \A p, q \in Procs :
    (/\ p # q
     /\ pass[p].pc \in {"select", "stage", "upsert", "proj_delete", "proj_upsert",
                        "rm_dates", "rm_events", "stamp"}
     /\ pass[q].pc \in {"select", "stage", "upsert", "proj_delete", "proj_upsert",
                        "rm_dates", "rm_events", "stamp"})
    => pass[p].conn.id # pass[q].conn.id

\* C16: when two interleaved passes of one connection that read the same
\* feed have both completed, with no error ignored on the way, the stored
\* events of the connection are what one pass after the other leaves: one
\* row per feed entry, with the entry's values.
C16_InterleavingEqualsSequence ==
  \A p, q \in Procs :
    (/\ p # q
     /\ pass[p].pc = "done"
     /\ pass[q].pc = "done"
     /\ pass[p].conn.id = pass[q].conn.id
     /\ pass[p].feed = pass[q].feed
     /\ ~swallowed)
    => LET entries == StorableEntries(pass[p].feed)
           stored == ImportedEvents(pass[p].conn)
       IN /\ Cardinality(stored) = Len(entries)
          /\ \A i \in DOMAIN entries :
               \E r \in stored :
                 /\ r.external_id = entries[i].uid
                 /\ r.start_date = ColumnValue(entries[i].start)
                 /\ r.end_date = ColumnValue(entries[i].end)

\* C17: the step that stores a connection for a (property, source) that
\* already has one leaves that connection with the new URL and with no
\* last_synced.
C17_RecreatedConnectionIsUnsynced ==
  [][\A p \in Procs :
       (/\ pass[p].pc = "conn_write"
        /\ pass'[p].pc = "fetch"
        /\ pass[p].existingConnection # NoConn)
       => \E c \in calendar_connections' :
            /\ c.id = pass[p].existingConnection.id
            /\ c.ical_url = pass[p].url
            /\ c.last_synced = 0]_vars

\* C18: an import asked for source airbnb or other works on the connection
\* of that source: the pass it starts is for a stored connection of the
\* requested source, and the events it stages carry that source.
C18_ImportUsesRequestedSource ==
  \A p \in Procs :
    (pass[p].kind = "import" /\ pass[p].conn # NoConn)
    => /\ pass[p].conn.source = pass[p].source
       /\ \A i \in DOMAIN pass[p].eventsToUpsert :
            pass[p].eventsToUpsert[i].source = pass[p].source

\* C19: a step of an import or sync request whose property does not exist,
\* or is not the caller's, writes to no table, and the answer to such a
\* request is 404.
C19_ForeignPropertyIsNotFound ==
  [][\A p \in Procs :
       (/\ pass[p].kind \in {"import", "sync"}
        /\ ~\E r \in PropertiesTable :
              r.id = pass[p].property /\ r.host_id = pass[p].caller)
       => /\ calendar_connections' = calendar_connections
          /\ calendar_events' = calendar_events
          /\ unavailable_dates' = unavailable_dates
          /\ pass[p].pc = "responded" => pass[p].response.status = 404]_vars

\* An export that has answered, each of its selects having found the tables
\* as the first one did: the document is the export of the tables in
\* pass[p].before.
Exported(p) ==
  /\ pass[p].pc = "responded"
  /\ pass[p].kind = "export"
  /\ pass[p].ical.steady

\* C20: the exported calendar of a property, each select having succeeded,
\* has one VEVENT for each confirmed booking, one for each stored event, one
\* for each unavailable_dates row that refers to no event and no booking,
\* and no other VEVENT: rows derived from an event or a booking produce none.
C20_ExportSkipsDerivedRows ==
  \A p \in Procs :
    (Exported(p) /\ pass[p].ignored = {}) =>
      LET property == pass[p].property
          vevents == pass[p].ical.document.vevents
          ical == Range(vevents)
          confirmed == {b \in pass[p].before.bookings :
                          b.property_id = property /\ b.status = "confirmed"}
          events == {e \in pass[p].before.events : e.property_id = property}
          rows == {r \in pass[p].before.dates : r.property_id = property}
          own == {r \in rows : r.event_id = NoId /\ r.booking_id = NoBooking}
      IN /\ \A b \in confirmed : \E v \in ical : v.uid = "booking-" \o b.id
         /\ \A e \in events : \E v \in ical : v.uid = "event-" \o ToString(e.id)
         /\ \A r \in rows :
              (\E v \in ical : v.uid = "blocked-" \o ToString(r.date)) <=> r \in own
         /\ Len(vevents) = Cardinality(confirmed) + Cardinality(events) + Cardinality(own)

\* C21: when all a property has is one confirmed booking and the
\* unavailable days projected from it, the export, each select having
\* succeeded, has a VEVENT that starts at check_in and ends at check_out,
\* and reading the export back gives that one occurrence and no other.
C21_BookingExportRoundTrip ==
  \A p \in Procs : \A b \in pass[p].before.bookings :
    (/\ Exported(p)
     /\ pass[p].ignored = {}
     /\ pass[p].before.bookings = {b}
     /\ b.property_id = pass[p].property
     /\ b.status = "confirmed"
     /\ pass[p].before.events = {}
     /\ {r.date : r \in pass[p].before.dates} = DatesBetween(b.check_in, b.check_out)
     /\ \A r \in pass[p].before.dates :
          r.property_id = b.property_id /\ r.booking_id = b.id /\ r.event_id = NoId)
    => LET vevents == pass[p].ical.document.vevents
       IN /\ \E i \in DOMAIN vevents :
               vevents[i].dtstart = b.check_in /\ vevents[i].dtend = b.check_out
          /\ Len(vevents) = 1

\* C22: an export each of whose selects found the property with no
\* confirmed booking, no unavailable_dates row and no calendar event
\* answers with the four header lines followed by END:VCALENDAR and no
\* VEVENT, whether or not its selects succeeded and whatever was written
\* for other properties meanwhile.
C22_EmptyPropertyExportsNoEvent ==
  \A p \in Procs :
    (/\ pass[p].pc = "responded"
     /\ pass[p].kind = "export"
     /\ pass[p].ical.blank)
    => LET document == pass[p].ical.document
       IN /\ pass[p].response.status = 200
          /\ Len(document.header) = 4
          /\ document.header[1] = "BEGIN:VCALENDAR"
          /\ document.header[2] = "VERSION:2.0"
          /\ document.vevents = <<>>
          /\ document.end = "END:VCALENDAR"

\* An answered export, each select having succeeded, of a property that
\* has a booking that is not confirmed and nothing to export, while the
\* other property has an event.
C22_Witness ==
  \E p \in Procs :
    /\ pass[p].pc = "responded"
    /\ pass[p].kind = "export"
    /\ pass[p].ical.blank
    /\ pass[p].ignored = {}
    /\ \E b \in pass[p].before.bookings :
         b.property_id = pass[p].property /\ b.status # "confirmed"
    /\ \E e \in pass[p].before.events : e.property_id # pass[p].property
    /\ pass[p].ical.document.vevents = <<>>
    /\ pass[p].ical.document.end = "END:VCALENDAR"

\* C23: a feed entry that is not a VEVENT, or has no start, or has no end,
\* is not staged and not counted, and the well-formed entries of the same
\* feed are staged and counted; when the pass has completed (its select
\* read, the stored events having one row per external id), the stored
\* events of the connection are those of the well-formed entries.
C23_MalformedEntriesAreSkipped ==
  \A p \in Procs :
    (pass[p].pc \in {"upsert", "proj_delete", "proj_upsert", "rm_dates",
                     "rm_events", "stamp", "done"})
    => LET feed == pass[p].feed
           good == {i \in DOMAIN feed :
                      feed[i].type = "VEVENT" /\ feed[i].has_start /\ feed[i].has_end}
           staged == pass[p].eventsToUpsert
       IN /\ \A i \in DOMAIN feed \ good :
               ~\E j \in DOMAIN staged : staged[j].external_id = feed[i].uid
          /\ \A i \in good :
               \E j \in DOMAIN staged :
                 /\ staged[j].external_id = feed[i].uid
                 /\ staged[j].start_date = feed[i].start
                 /\ staged[j].end_date = feed[i].end
          /\ pass[p].result.added + pass[p].result.updated = Cardinality(good)
          /\ (/\ pass[p].pc = "done"
              /\ "select" \notin pass[p].ignored
              /\ ~ViolatesEventsUnique(pass[p].before.events))
             => {r.external_id : r \in ImportedEvents(pass[p].conn)}
                  = {feed[i].uid : i \in good}

\* A completed pass over a feed of one well-formed event and one malformed
\* entry, the malformed one carrying the UID of an event stored before.
C23_Witness ==
  \E p \in Procs :
    /\ pass[p].pc = "done"
    /\ pass[p].ignored = {}
    /\ Len(pass[p].feed) = 2
    /\ Len(pass[p].eventsToUpsert) = 1
    /\ \E i \in DOMAIN pass[p].feed :
         /\ ~(pass[p].feed[i].type = "VEVENT" /\ pass[p].feed[i].has_start
              /\ pass[p].feed[i].has_end)
         /\ \E r \in pass[p].before.events : r.external_id = pass[p].feed[i].uid
    /\ Cardinality(ImportedEvents(pass[p].conn)) = 1

\* C24: with no error ignored on the way, no unavailable_dates row refers to
\* a booking and to an imported event at once: whichever of the projector
\* and the booking confirmation wrote the date last leaves its own
\* back-reference only.
C24_RowHasOneOwner ==
  ~swallowed
  => \A r \in unavailable_dates :
       (\E e \in calendar_events : e.id = r.event_id /\ e.external_id # Null)
       => r.booking_id = NoBooking

\* C25: when a pass threw after its upsert and projection, at the delete of
\* the vanished events, and the next pass
\* of the same connection reads the same feed and completes with every call
\* succeeding, nothing else having written in between, calendar_events
\* (updated_at apart) and unavailable_dates are what one successful pass
\* would have left from the tables the failed pass found.
C25_RetryEqualsOnePass ==
  \A p \in Procs :
    (/\ pass[p].pc = "done"
     /\ pass[p].ignored = {}
     /\ last.failedAt = "remove"
     /\ last.cid = pass[p].conn.id
     /\ last.feed = pass[p].feed
     /\ ~ViolatesEventsUnique(last.before.events))
    => LET one == syncCalendarEvents(last.before, pass[p].conn, pass[p].feed,
                                     pass[p].t, last.firstId)
       IN /\ {[e EXCEPT !.updated_at = 0] : e \in calendar_events}
               = {[e EXCEPT !.updated_at = 0] : e \in one.events}
          /\ unavailable_dates = one.dates

\* C26: when a pass has completed, every day from the start day up to, not
\* including, the end day of a well-formed feed entry has an
\* unavailable_dates row of the property, whether or not the day is shared
\* with another event of the feed or with an event the pass removed.
C26_FeedDaysAreBlocked ==
  \A p \in Procs :
    pass[p].pc = "done"
    => \A i \in DOMAIN pass[p].feed :
         (pass[p].feed[i].type = "VEVENT" /\ pass[p].feed[i].has_start
            /\ pass[p].feed[i].has_end)
         => \A d \in Days :
              (DayOf(pass[p].feed[i].start) <= d /\ d < DayOf(pass[p].feed[i].end))
              => \E r \in unavailable_dates :
                   r.property_id = pass[p].conn.property_id /\ r.date = d

\* C27: between webhook events, with no error ignored on the way, the
\* unavailable_dates rows that carry a booking's id exist only while the
\* booking is confirmed, and then are the rows of the days from check_in up
\* to, not including, check_out.
C27_BookingRowsFollowStatus ==
  (Quiet /\ ~swallowed)
  => \A b \in bookings :
       {r.date : r \in {x \in unavailable_dates : x.booking_id = b.id}}
         = IF b.status = "confirmed"
           THEN {d \in Days : DayOf(b.check_in) <= d /\ d < DayOf(b.check_out)}
           ELSE {}

\* C28: no step of a sync pass changes or deletes a calendar event that has
\* no external id, or that belongs to another property or another source
\* than the connection of the pass.
C28_PassKeepsForeignEvents ==
  [][\A p \in Procs :
       (/\ pass[p].pc \in {"select", "stage", "upsert", "proj_delete", "proj_upsert",
                           "rm_dates", "rm_events", "stamp"}
        /\ pass'[p] # pass[p])
       => \A e \in calendar_events :
            (\/ e.external_id = Null
             \/ e.property_id # pass[p].conn.property_id
             \/ e.source # pass[p].conn.source)
            => e \in calendar_events']_vars

\* C29: for every stored calendar event, the days its exported VEVENT
\* covers, from DTSTART up to, not including, DTEND, are the days the
\* projector marks unavailable for it, from start_date up to, not
\* including, end_date.
C29_ExportCoversProjectedDays ==
  \A p \in Procs :
    Exported(p) =>
      \A e \in pass[p].before.events :
        \A v \in Range(pass[p].ical.document.vevents) :
          v.uid = "event-" \o ToString(e.id)
          => DatesBetween(v.dtstart, v.dtend) = DatesBetween(e.start_date, e.end_date)

\* C30: when a pass has completed and has written last_synced, none of its
\* deletes and upserts of unavailable_dates failed: every day of every
\* upserted event has a row, and no row refers to a removed event.
C30_StampMeansProjected ==
  \A p \in Procs :
    (pass[p].pc = "done" /\ "stamp" \notin pass[p].ignored)
    => /\ pass[p].ignored \cap {"proj_delete", "proj_upsert", "rm_dates"} = {}
       /\ \A i \in DOMAIN pass[p].upsertedEvents :
            \A d \in DatesBetween(pass[p].upsertedEvents[i].start_date,
                                  pass[p].upsertedEvents[i].end_date) :
              \E r \in unavailable_dates :
                r.property_id = pass[p].conn.property_id /\ r.date = d
       /\ \A r \in unavailable_dates : r.event_id \notin pass[p].idsToRemove
====
